---- MODULE Spec2Model ----
(***************************************************************************)
(* Model of extras/AFC_AMS.py: the AMS override loader.                    *)
(*                                                                         *)
(* On import the module replaces a fixed ordered list of AFC modules in    *)
(* sys.modules by implementations loaded from the AMS bundle directory and *)
(* then re-exports the load_config function of the overridden extras.AFC.  *)
(*                                                                         *)
(* A dotted module name is the sequence of its components, a path is the   *)
(* pair <<directory, file name>>.  Module objects live in `heap`; a module *)
(* object is referred to by its index in the heap, so object identity is   *)
(* index equality and sys.modules maps names to indices.                   *)
(***************************************************************************)
EXTENDS Integers, Sequences, FiniteSets, TLC

(***************************************************************************)
(* Bounds of the model.                                                    *)
(***************************************************************************)
\* at most this many bundle files are absent or are not a plain module body
MaxFaulty == 2
\* calls of _load_ams_modules made after the import of AFC_AMS succeeded
MaxReinvocations == 1
\* config objects handed to load_config carry a value in 1..MaxConfig
MaxConfig == 2
\* a body that reads another module reads a manifest neighbour
DepOffsets == {-1, 1}

(***************************************************************************)
(* Program constants.                                                      *)
(***************************************************************************)
_MODULE_ORDER ==
    << <<"extras", "AFC_utils">>,
       <<"extras", "AFC_functions">>,
       <<"extras", "AFC_logger">>,
       <<"extras", "AFC_spool">>,
       <<"extras", "AFC_buffer">>,
       <<"extras", "AFC_extruder">>,
       <<"extras", "AFC_prep">>,
       <<"extras", "AFC_unit">>,
       <<"extras", "AFC_lane">>,
       <<"extras", "AFC_hub">>,
       <<"extras", "AFC_BoxTurtle">>,
       <<"extras", "AFC">>,
       <<"extras", "AFC_error">> >>

\* directory exported by extras.afc_ams_bundle
BUNDLE_ROOT == "extras/afc_ams_bundle"
\* directory of the upstream modules, which stay untouched on disk
UPSTREAM_ROOT == "extras"
\* the module `from extras.AFC import load_config` reads
PRIMARY == <<"extras", "AFC">>
\* the module imported at the top of AFC_AMS.py; never in the manifest
BUNDLE_PACKAGE == <<"extras", "afc_ams_bundle">>

Idx == 1..Len(_MODULE_ORDER)
ManifestNames == {_MODULE_ORDER[k] : k \in Idx}
Configs == 1..MaxConfig

(***************************************************************************)
(* Pure helpers.                                                           *)
(***************************************************************************)
RECURSIVE Join(_)
\* '.'.join(parts)
Join(parts) ==
    IF Len(parts) = 0 THEN ""
    ELSE IF Len(parts) = 1 THEN parts[1]
    ELSE parts[1] \o "." \o Join(Tail(parts))

\* module_name.split('.', 1)[1]
ShortName(module_name) == Join(Tail(module_name))

\* BUNDLE_ROOT / f"{short_name}.py"
_module_filename(module_name) == <<BUNDLE_ROOT, ShortName(module_name) \o ".py">>

\* where the upstream implementation of module_name is installed
UpstreamFile(module_name) == <<UPSTREAM_ROOT, ShortName(module_name) \o ".py">>

\* position of a name in the manifest (0 when it is not listed)
IndexOf(module_name) ==
    IF module_name \in ManifestNames
    THEN CHOOSE k \in Idx : _MODULE_ORDER[k] = module_name
    ELSE 0

(***************************************************************************)
(* Values.                                                                 *)
(***************************************************************************)
NoName == <<>>
NoFunction == [module |-> 0, factor |-> 0]
NoError == [type |-> "none", msg |-> "", name |-> NoName, path |-> NoName]
NoCall == [config |-> 0, run |-> 0, result |-> [by |-> 0, value |-> 0]]
EmptyDict == [n \in {} |-> 0]

\* a fresh module object as module_from_spec returns it: named, with
\* __file__ set from the loader's path, and an empty namespace
module_from_spec(name, path) ==
    [name |-> name, file |-> path, symbols |-> {}, X |-> 0, Y |-> 0,
     load_config |-> NoFunction]

\* an upstream module as the normal import system loaded it before AFC_AMS
UpstreamModule(name, id) ==
    [name |-> name, file |-> UpstreamFile(name),
     symbols |-> IF name = PRIMARY THEN {"load_config"} ELSE {},
     X |-> 0, Y |-> 0,
     load_config |-> IF name = PRIMARY THEN [module |-> id, factor |-> 1]
                     ELSE NoFunction]

(***************************************************************************)
(* The bundle's module bodies (extras/afc_ams_bundle/*.py).                *)
(*                                                                         *)
(* A body is [kind, target]:                                               *)
(*   "plain"   defines X = 1;                                              *)
(*   "reads"   first defines Y = sys.modules[target].X + 1, then X = 1;    *)
(*   "raises"  raises RuntimeError before it defines anything.             *)
(* The body of extras.AFC also defines load_config(cfg) = cfg.value * 2.   *)
(***************************************************************************)
PlainBody == [kind |-> "plain", target |-> NoName]
RaisingBody == [kind |-> "raises", target |-> NoName]
ReadingBody(target) == [kind |-> "reads", target |-> target]

\* the exception a body raises on the registry and heap it runs against
\* ("none" when it runs to completion)
BodyException(body, reg, hp) ==
    CASE body.kind = "raises" -> "RuntimeError"
      [] body.kind = "reads" ->
            IF body.target \notin DOMAIN reg THEN "ModuleNotFoundError"
            ELSE IF "X" \notin hp[reg[body.target]].symbols THEN "AttributeError"
            ELSE "none"
      [] OTHER -> "none"

\* the module object after its body ran to completion
BodyResult(body, reg, hp, id) ==
    LET m == hp[id] IN
    [m EXCEPT !.symbols = {"X"}
                  \cup (IF body.kind = "reads" THEN {"Y"} ELSE {})
                  \cup (IF m.name = PRIMARY THEN {"load_config"} ELSE {}),
              !.X = 1,
              !.Y = IF body.kind = "reads" THEN hp[reg[body.target]].X + 1 ELSE 0,
              !.load_config = IF m.name = PRIMARY
                              THEN [module |-> id, factor |-> 2]
                              ELSE NoFunction]

\* calling a module's load_config function with a config object: the result
\* tells which module object's function built it, and carries the value the
\* function computed from cfg.value
Apply(fn, config) == [by |-> fn.module, value |-> config * fn.factor]

(***************************************************************************)
(* State.                                                                  *)
(***************************************************************************)
VARIABLES
    bundle,            \* files under BUNDLE_ROOT: path -> body
    heap,              \* module objects, by identity
    sys_modules,       \* sys.modules: module name -> module object
    pc,                \* "start", "loop", "exec", "ready", "failed"
    caller,            \* "import" (line 69) or "reinvoke" (a later call)
    i,                 \* position of the for loop in module_names
    module,            \* _load_module's local `module` while its body runs
    loaded,            \* _load_ams_modules' local dict
    error,             \* the exception that left _load_ams_modules, if any
    _AMS_MODULES,      \* module global, line 69
    _ams_load_config,  \* module global, line 73
    lastCall,          \* the latest call of load_config: its argument, the
                       \* number of loader runs before it, and its result
    runs,              \* calls of _load_ams_modules so far
    entry_modules,     \* sys.modules when the current call began
    entry_mark         \* number of module objects when the current call began

vars == <<bundle, heap, sys_modules, pc, caller, i, module, loaded, error,
          _AMS_MODULES, _ams_load_config, lastCall, runs, entry_modules,
          entry_mark>>

(***************************************************************************)
(* Initial states: a process that has imported extras.afc_ams_bundle and   *)
(* is about to run line 69.                                                *)
(***************************************************************************)
\* what a faulty bundle file can be; "absent" is a file that does not exist
FaultChoices(k) ==
    {[kind |-> "absent", off |-> 0], [kind |-> "raises", off |-> 0]}
    \cup {[kind |-> "reads", off |-> d] : d \in {e \in DepOffsets : k + e \in Idx}}

BodyOf(k, fault) ==
    IF fault.kind = "raises" THEN RaisingBody
    ELSE ReadingBody(_MODULE_ORDER[k + fault.off])

\* the upstream modules that were imported before AFC_AMS
PreloadedChoices ==
    {{}, {PRIMARY}, ManifestNames}

RECURSIVE InitialHeap(_, _)
\* the bundle package followed by the preloaded upstream modules, in
\* manifest order
InitialHeap(pre, k) ==
    IF k = 0
    THEN << [name |-> BUNDLE_PACKAGE, file |-> <<BUNDLE_ROOT, "__init__.py">>,
             symbols |-> {"BUNDLE_ROOT"}, X |-> 0, Y |-> 0,
             load_config |-> NoFunction] >>
    ELSE LET h == InitialHeap(pre, k - 1) IN
         IF _MODULE_ORDER[k] \in pre
         THEN Append(h, UpstreamModule(_MODULE_ORDER[k], Len(h) + 1))
         ELSE h

Init ==
    /\ \E F \in {S \in SUBSET Idx : Cardinality(S) <= MaxFaulty} :
         \E fault \in [F -> UNION {FaultChoices(k) : k \in Idx}] :
            /\ \A k \in F : fault[k] \in FaultChoices(k)
            /\ bundle =
                 [p \in {_module_filename(_MODULE_ORDER[k]) :
                           k \in {j \in Idx : j \notin F \/ fault[j].kind # "absent"}}
                    |-> LET k == CHOOSE j \in Idx : _module_filename(_MODULE_ORDER[j]) = p
                        IN IF k \in F THEN BodyOf(k, fault[k]) ELSE PlainBody]
    /\ \E pre \in PreloadedChoices :
         /\ heap = InitialHeap(pre, Len(_MODULE_ORDER))
         /\ sys_modules =
              [n \in pre \cup {BUNDLE_PACKAGE} |->
                 CHOOSE id \in 1..Len(heap) : heap[id].name = n]
    /\ pc = "start"
    /\ caller = "import"
    /\ i = 0
    /\ module = 0
    /\ loaded = EmptyDict
    /\ error = NoError
    /\ _AMS_MODULES = EmptyDict
    /\ _ams_load_config = NoFunction
    /\ lastCall = NoCall
    /\ runs = 0
    /\ entry_modules = sys_modules
    /\ entry_mark = Len(heap)

(***************************************************************************)
(* The loader's steps.                                                     *)
(***************************************************************************)
\* fault: the existence check always passes
Exists_always(path) == TRUE

\* module_path.exists()
Exists(path) == path \in DOMAIN bundle

\* fault: the missing file is reported as a bare ImportError
MissingOverrideError_bare(module_name, module_path) ==
    [type |-> "ImportError", msg |-> "", name |-> NoName, path |-> NoName]

\* ImportError(f"Missing AMS override for {module_name} at {module_path}")
MissingOverrideError(module_name, module_path) ==
    [type |-> "ImportError", msg |-> "Missing AMS override",
     name |-> module_name, path |-> module_path]

\* an exception of the body, as it leaves loader.exec_module
BodyError(exc) == [type |-> exc, msg |-> "", name |-> NoName, path |-> NoName]

\* fault: sys.modules.setdefault(name, module)
sys_modules_setdefault(reg, name, id) == reg @@ (name :> id)

\* fault: an entry that already is a bundle override is left alone
sys_modules_guarded(reg, name, id) ==
    IF name \in DOMAIN reg /\ heap[reg[name]].file[1] = BUNDLE_ROOT
    THEN reg
    ELSE (name :> id) @@ reg

\* fault: the module is not registered before its body runs
sys_modules_unregistered(reg, name, id) == reg

\* sys.modules[name] = module
sys_modules_set(reg, name, id) == (name :> id) @@ reg

\* loaded[module_name] = <the module _load_module returned>
loaded_set(dict, name, id) == (name :> id) @@ dict

\* fault: the loop walks the list backwards
Entry_reversed(module_names, k) == module_names[Len(module_names) + 1 - k]

\* the entry the for loop visits at position k
Entry(module_names, k) == module_names[k]

\* loader.exec_module(module): the exception it ends with, "none" when the
\* body ran to completion.  SourceFileLoader reads the file first.
ExecException(path, reg, hp) ==
    IF path \notin DOMAIN bundle THEN "FileNotFoundError"
    ELSE BodyException(bundle[path], reg, hp)

\* fault: the body runs in every module object of that name, as a reload of
\* the old module would
ExecNamespace_inplace(hp, id, obj) ==
    [k \in DOMAIN hp |-> IF hp[k].name = obj.name THEN obj ELSE hp[k]]

\* the heap once the body of module `id` has filled that module's namespace
ExecNamespace(hp, id, obj) == [hp EXCEPT ![id] = obj]

\* fault: the exception is swallowed and the module counts as imported
Propagate_swallow(c) == "ready"

\* where control goes when an exception leaves _load_ams_modules: nothing in
\* AFC_AMS.py catches it, so the import of AFC_AMS fails, or the later
\* caller gets the exception
Propagate(c) == IF c = "import" THEN "failed" ELSE "ready"

\* fault: the import statement ran before the overrides were loaded
ImportFrom_early(reg, hp, name) ==
    IF name \in DOMAIN entry_modules
       /\ "load_config" \in hp[entry_modules[name]].symbols
    THEN hp[entry_modules[name]].load_config
    ELSE NoFunction

\* from extras.AFC import load_config
ImportFrom(reg, hp, name) ==
    IF name \in DOMAIN reg /\ "load_config" \in hp[reg[name]].symbols
    THEN hp[reg[name]].load_config
    ELSE NoFunction

\* fault: the proxy resolves extras.AFC in sys.modules on every call
load_config_late(config) ==
    Apply(heap[sys_modules[PRIMARY]].load_config, config)

\* def load_config(config): return _ams_load_config(config)
load_config(config) == Apply(_ams_load_config, config)

\* a call of _load_ams_modules(_MODULE_ORDER) begins: loaded = {}
Enter(c) ==
    /\ pc' = "loop"
    /\ caller' = c
    /\ i' = 1
    /\ module' = 0
    /\ loaded' = EmptyDict
    /\ error' = NoError
    /\ runs' = runs + 1
    /\ entry_modules' = sys_modules
    /\ entry_mark' = Len(heap)
    /\ UNCHANGED <<bundle, heap, sys_modules, _AMS_MODULES, _ams_load_config,
                   lastCall>>

\* line 69, reached by importing extras.AFC_AMS
Import ==
    /\ pc = "start"
    /\ Enter("import")

\* a later call of _load_ams_modules(_MODULE_ORDER) in the same process
Reinvoke ==
    /\ pc = "ready"
    /\ runs <= MaxReinvocations
    /\ Enter("reinvoke")

\* lines 60-63: the file of the entry does not exist
MissingOverride ==
    /\ pc = "loop"
    /\ i <= Len(_MODULE_ORDER)
    /\ LET module_name == Entry(_MODULE_ORDER, i)
           module_path == _module_filename(module_name)
       IN /\ ~Exists(module_path)
          /\ error' = MissingOverrideError(module_name, module_path)
          /\ pc' = Propagate(caller)
    /\ UNCHANGED <<bundle, heap, sys_modules, caller, i, module, loaded,
                   _AMS_MODULES, _ams_load_config, lastCall, runs,
                   entry_modules, entry_mark>>

\* lines 60-62 and 47-52: the file exists; _load_module creates the module
\* object and registers it, and is about to run its body.  spec_from_loader
\* always returns a spec for a SourceFileLoader, so line 50 is never reached.
LoadModule ==
    /\ pc = "loop"
    /\ i <= Len(_MODULE_ORDER)
    /\ LET module_name == Entry(_MODULE_ORDER, i)
           module_path == _module_filename(module_name)
           id == Len(heap) + 1
       IN /\ Exists(module_path)
          /\ heap' = Append(heap, module_from_spec(module_name, module_path))
          /\ module' = id
          /\ sys_modules' = sys_modules_set(sys_modules, module_name, id)
          /\ pc' = "exec"
    /\ UNCHANGED <<bundle, caller, i, loaded, error, _AMS_MODULES,
                   _ams_load_config, lastCall, runs, entry_modules, entry_mark>>

\* lines 53-54 and 64: the body runs to completion
ExecModule ==
    /\ pc = "exec"
    /\ LET m == heap[module] IN
       /\ ExecException(m.file, sys_modules, heap) = "none"
       /\ heap' = ExecNamespace(heap, module,
                                BodyResult(bundle[m.file], sys_modules, heap, module))
       /\ loaded' = loaded_set(loaded, m.name, module)
    /\ i' = i + 1
    /\ module' = 0
    /\ pc' = "loop"
    /\ UNCHANGED <<bundle, sys_modules, caller, error, _AMS_MODULES,
                   _ams_load_config, lastCall, runs, entry_modules, entry_mark>>

\* line 53: the body raises; the exception leaves _load_module and
\* _load_ams_modules
ExecModuleRaises ==
    /\ pc = "exec"
    /\ LET exc == ExecException(heap[module].file, sys_modules, heap) IN
       /\ exc # "none"
       /\ error' = BodyError(exc)
    /\ pc' = Propagate(caller)
    /\ UNCHANGED <<bundle, heap, sys_modules, caller, i, module, loaded,
                   _AMS_MODULES, _ams_load_config, lastCall, runs,
                   entry_modules, entry_mark>>

\* lines 65, 69 and 73: the loop is over during the import of AFC_AMS
FinishImport ==
    /\ pc = "loop"
    /\ i > Len(_MODULE_ORDER)
    /\ caller = "import"
    /\ _AMS_MODULES' = loaded
    /\ LET fn == ImportFrom(sys_modules, heap, PRIMARY) IN
       IF fn = NoFunction
       THEN /\ error' = [type |-> "ImportError", msg |-> "cannot import name",
                         name |-> PRIMARY, path |-> NoName]
            /\ pc' = "failed"
            /\ UNCHANGED _ams_load_config
       ELSE /\ _ams_load_config' = fn
            /\ pc' = "ready"
            /\ UNCHANGED error
    /\ UNCHANGED <<bundle, heap, sys_modules, caller, i, module, loaded,
                   lastCall, runs, entry_modules, entry_mark>>

\* line 65: the loop is over in a later call; the caller gets `loaded`
Return ==
    /\ pc = "loop"
    /\ i > Len(_MODULE_ORDER)
    /\ caller = "reinvoke"
    /\ pc' = "ready"
    /\ UNCHANGED <<bundle, heap, sys_modules, caller, i, module, loaded, error,
                   _AMS_MODULES, _ams_load_config, lastCall, runs,
                   entry_modules, entry_mark>>

\* lines 76-78: the host calls the exported load_config
CallLoadConfig ==
    /\ pc = "ready"
    /\ \E config \in Configs :
         lastCall' = [config |-> config, run |-> runs, result |-> load_config(config)]
    /\ UNCHANGED <<bundle, heap, sys_modules, pc, caller, i, module, loaded,
                   error, _AMS_MODULES, _ams_load_config, runs, entry_modules,
                   entry_mark>>

Next ==
    \/ Import
    \/ Reinvoke
    \/ MissingOverride
    \/ LoadModule
    \/ ExecModule
    \/ ExecModuleRaises
    \/ FinishImport
    \/ Return
    \/ CallLoadConfig

Spec == Init /\ [][Next]_vars

(***************************************************************************)
(* Vocabulary of the properties.                                           *)
(***************************************************************************)
NameAt(k) == _MODULE_ORDER[k]
\* the file each manifest name is expected at, and the upstream file it
\* must not come from
ExpectedPath == [n \in ManifestNames |-> <<BUNDLE_ROOT, ShortName(n) \o ".py">>]
UpstreamPath == [n \in ManifestNames |-> <<UPSTREAM_ROOT, ShortName(n) \o ".py">>]
Position == [n \in ManifestNames |-> IndexOf(n)]
Absent(k) == ExpectedPath[NameAt(k)] \notin DOMAIN bundle
NewThisRun(id) == id > entry_mark
\* the module objects the current run created
NewObjects == (entry_mark + 1)..Len(heap)
Executed(id) == "X" \in heap[id].symbols
Partial(id) == heap[id].symbols = {}

\* module object id was loaded from the bundle file of name n
FromBundle(id, n) ==
    /\ heap[id].name = n
    /\ heap[id].file[1] = BUNDLE_ROOT
    /\ heap[id].file = ExpectedPath[n]
    /\ heap[id].file # UpstreamPath[n]
    /\ heap[id].file \in DOMAIN bundle

\* the registry holds for n a finished override created by the current run
OverriddenThisRun(n) ==
    /\ n \in DOMAIN sys_modules
    /\ NewThisRun(sys_modules[n])
    /\ FromBundle(sys_modules[n], n)
    /\ Executed(sys_modules[n])
    /\ n \in DOMAIN loaded
    /\ loaded[n] = sys_modules[n]

\* the registry entry of n is what it was when the current run began
SameAsOnEntry(n) ==
    /\ (n \in DOMAIN sys_modules) = (n \in DOMAIN entry_modules)
    /\ n \in DOMAIN sys_modules => sys_modules[n] = entry_modules[n]

\* the current run created no module object for n
UntouchedThisRun(n) ==
    /\ SameAsOnEntry(n)
    /\ \A id \in NewObjects : heap[id].name # n
    /\ n \notin DOMAIN loaded

Initialized == _ams_load_config # NoFunction

(***************************************************************************)
(* C1: once the import of AFC_AMS has succeeded, every name of the         *)
(* manifest is registered, and its entry is a module object loaded from    *)
(* that name's bundle file, never an upstream module, whatever was         *)
(* registered before; right after the import the entry is the handle       *)
(* _load_ams_modules returned for the name.                                *)
(***************************************************************************)
C1_Theorem ==
    Initialized =>
       \A n \in ManifestNames :
          /\ n \in DOMAIN sys_modules
          /\ FromBundle(sys_modules[n], n)
          /\ heap[sys_modules[n]].file[1] # UPSTREAM_ROOT
          /\ (pc = "ready" /\ runs = 1) =>
                /\ Executed(sys_modules[n])
                /\ DOMAIN _AMS_MODULES = ManifestNames
                /\ sys_modules[n] = _AMS_MODULES[n]

\* the import succeeded in a process that had imported every upstream module
C1_Witness ==
    /\ pc = "ready"
    /\ runs = 1
    /\ ManifestNames \subseteq DOMAIN entry_modules
    /\ \A n \in ManifestNames : sys_modules[n] # entry_modules[n]

(***************************************************************************)
(* C2: when the loader reaches manifest entry i (every earlier entry was   *)
(* loaded and its body ran to completion) and the bundle lacks the file of *)
(* entry i, the run fails with the missing-override error that names       *)
(* entry i and its expected path; every earlier entry is registered as its *)
(* override, the registry entry of name i is what it was when the run      *)
(* began, and no entry from i on is resolved to a module object, executed  *)
(* or registered.  No module object is ever created for an absent file,    *)
(* and the loop never passes an absent file.                               *)
(***************************************************************************)
C2_Theorem ==
    /\ \A id \in NewObjects : heap[id].file \in DOMAIN bundle
    /\ \A k \in Idx : (Absent(k) /\ pc \in {"loop", "exec"}) => i <= k
    /\ \A k \in Idx :
         (Absent(k) /\ pc \in {"failed", "ready"} /\ runs >= 1 /\ i = k) =>
            /\ error.type = "ImportError"
            /\ error.msg = "Missing AMS override"
            /\ error.name = NameAt(k)
            /\ error.path = ExpectedPath[NameAt(k)]
            /\ \A j \in 1..(k - 1) : OverriddenThisRun(NameAt(j))
            /\ \A j \in k..Len(_MODULE_ORDER) : UntouchedThisRun(NameAt(j))

\* the run failed at a later entry whose file is absent while an upstream
\* module was registered under that entry's name
C2_Witness ==
    /\ pc = "failed"
    /\ i > 1
    /\ Absent(i)
    /\ error.msg = "Missing AMS override"
    /\ NameAt(i) \in DOMAIN sys_modules
    /\ heap[sys_modules[NameAt(i)]].file[1] = UPSTREAM_ROOT

\* C2 as first stated: whenever the file of entry i is absent and the files
\* of all earlier entries exist, a finished run has failed with the
\* missing-override error naming entry i
C2_AsStated ==
    \A k \in Idx :
       (/\ Absent(k)
        /\ \A j \in 1..(k - 1) : ~Absent(j)
        /\ pc \in {"failed", "ready"}
        /\ runs >= 1) =>
          /\ error.msg = "Missing AMS override"
          /\ error.name = NameAt(k)

(***************************************************************************)
(* C3: the manifest is processed one entry at a time in declared order.    *)
(* While the body of entry i runs, the module being executed is the one of *)
(* the i-th declared name, every earlier entry has finished and is         *)
(* registered as its override, and no later entry has been touched by the  *)
(* run.  So a body that reads X of an earlier entry through the registry   *)
(* gets the override's X (Y = 2), and a body that reads X of a later entry *)
(* never completes: the run fails in that body with a name-resolution      *)
(* error.                                                                  *)
(***************************************************************************)
C3_Theorem ==
    /\ pc = "exec" =>
          /\ i \in Idx
          /\ heap[module].name = _MODULE_ORDER[i]
          /\ \A j \in 1..(i - 1) : OverriddenThisRun(_MODULE_ORDER[j])
          /\ \A j \in (i + 1)..Len(_MODULE_ORDER) : UntouchedThisRun(_MODULE_ORDER[j])
    /\ \A n \in DOMAIN loaded :
          LET body == bundle[heap[loaded[n]].file] IN
          body.kind = "reads" =>
             /\ Position[body.target] < Position[n]
             /\ FromBundle(sys_modules[body.target], body.target)
             /\ heap[loaded[n]].Y = 2
    /\ \A k \in Idx :
          (/\ ~Absent(k)
           /\ bundle[ExpectedPath[NameAt(k)]].kind = "reads"
           /\ Position[bundle[ExpectedPath[NameAt(k)]].target] > k
           /\ pc \in {"failed", "ready"}
           /\ runs >= 1
           /\ i = k) =>
             /\ pc = "failed"
             /\ error.type \in {"AttributeError", "ModuleNotFoundError"}
             /\ sys_modules[NameAt(k)] = module
             /\ Partial(module)

\* a body that reads the previous entry has completed
C3_Witness ==
    \E n \in DOMAIN loaded :
       /\ bundle[heap[loaded[n]].file].kind = "reads"
       /\ heap[loaded[n]].Y = 2
       /\ Position[n] > 1

(***************************************************************************)
(* C4: every call of the exported load_config hands its argument unchanged *)
(* to the load_config of the extras.AFC module object that was registered  *)
(* when the whole manifest had been processed (the bundle override, whose  *)
(* load_config doubles cfg.value, never the upstream module, although      *)
(* extras.AFC is not the last manifest entry) and returns that function's  *)
(* result as it is; the call changes nothing but the caller's view of the  *)
(* result.                                                                 *)
(***************************************************************************)
C4_State ==
    lastCall # NoCall =>
       /\ lastCall.config \in Configs
       /\ lastCall.result.value = 2 * lastCall.config
       /\ lastCall.result.by = _AMS_MODULES[PRIMARY]
       /\ FromBundle(lastCall.result.by, PRIMARY)
       /\ heap[lastCall.result.by].load_config = [module |-> lastCall.result.by, factor |-> 2]
       /\ lastCall.result = Apply(heap[_AMS_MODULES[PRIMARY]].load_config, lastCall.config)
       /\ DOMAIN _AMS_MODULES = ManifestNames
       /\ _MODULE_ORDER[Len(_MODULE_ORDER)] # PRIMARY

C4_Step ==
    lastCall' # lastCall =>
       UNCHANGED <<bundle, heap, sys_modules, pc, caller, i, module, loaded,
                   error, _AMS_MODULES, _ams_load_config, runs>>

C4_Theorem == [](C4_State) /\ [][C4_Step]_vars

\* load_config was called with the largest config after an import that
\* replaced a registered upstream extras.AFC
C4_Witness ==
    /\ lastCall.config = MaxConfig
    /\ lastCall.result.value = 2 * MaxConfig
    /\ runs = 1
    /\ PRIMARY \in DOMAIN entry_modules
    /\ heap[entry_modules[PRIMARY]].load_config.factor = 1

C6_State ==
    /\ (error # NoError /\ caller = "import") =>
          /\ pc = "failed"
          /\ _AMS_MODULES = EmptyDict
          /\ _ams_load_config = NoFunction
          /\ lastCall = NoCall
          /\ runs = 1
          /\ i \in Idx
          /\ NameAt(i) \notin DOMAIN loaded
          /\ \A j \in (i + 1)..Len(_MODULE_ORDER) : UntouchedThisRun(NameAt(j))
          /\ Cardinality({id \in NewObjects : heap[id].name = NameAt(i)}) <= 1
    /\ (pc = "failed" /\ ~Absent(i)) =>
          /\ error.msg = ""
          /\ error.name = NoName
          /\ error.path = NoName
          /\ bundle[ExpectedPath[NameAt(i)]].kind = "raises"
                => error.type = "RuntimeError"
          /\ bundle[ExpectedPath[NameAt(i)]].kind = "reads"
                => error.type \in {"AttributeError", "ModuleNotFoundError"}
          /\ bundle[ExpectedPath[NameAt(i)]].kind # "plain"
    /\ pc = "ready" =>
          /\ error = NoError
          /\ DOMAIN loaded = ManifestNames
          /\ \A n \in ManifestNames : Executed(loaded[n])

C6_Step == pc = "failed" => UNCHANGED vars

C6_Theorem == [](C6_State) /\ [][C6_Step]_vars

\* the import failed in the body of extras.AFC
C6_Witness ==
    /\ pc = "failed"
    /\ NameAt(i) = PRIMARY
    /\ error.type = "RuntimeError"
    /\ sys_modules[PRIMARY] = module

(***************************************************************************)
(* C7: a second run of the loader over the same manifest and the unchanged *)
(* bundle, after a successful import, raises nothing and overwrites the    *)
(* registry entry of every manifest name with a module object created by   *)
(* that run (last write wins); no entry is removed and the entries of      *)
(* names outside the manifest stay as they were after the first run.       *)
(***************************************************************************)
C7_Theorem ==
    /\ (caller = "reinvoke") => error = NoError
    /\ (caller = "reinvoke" /\ pc = "ready") =>
          /\ DOMAIN loaded = ManifestNames
          /\ \A n \in ManifestNames :
                /\ OverriddenThisRun(n)
                /\ n \in DOMAIN entry_modules
                /\ sys_modules[n] # entry_modules[n]
                /\ runs = 2 => entry_modules[n] = _AMS_MODULES[n]
          /\ DOMAIN entry_modules \subseteq DOMAIN sys_modules
          /\ \A n \in DOMAIN entry_modules \ ManifestNames :
                sys_modules[n] = entry_modules[n]
          /\ BUNDLE_PACKAGE \in DOMAIN sys_modules

\* the second run has returned
C7_Witness ==
    /\ caller = "reinvoke"
    /\ pc = "ready"
    /\ runs = 2
    /\ sys_modules[PRIMARY] # _AMS_MODULES[PRIMARY]

(***************************************************************************)
(* C8: loading and registering one name changes only the registry binding  *)
(* of that name.  The step that creates and registers the module leaves    *)
(* every other binding and every existing module object as it was; the     *)
(* step that runs the body changes the new module object only.  After a    *)
(* successful load the registry returns the new, executed module for the   *)
(* name, and a module object that was registered under the name before     *)
(* still has the contents it had.                                          *)
(***************************************************************************)
C8_Step ==
    /\ (pc = "loop" /\ pc' = "exec") =>
          /\ module' = Len(heap) + 1
          /\ Len(heap') = Len(heap) + 1
          /\ \A id \in 1..Len(heap) : heap'[id] = heap[id]
          /\ DOMAIN sys_modules' = DOMAIN sys_modules \cup {heap'[module'].name}
          /\ sys_modules'[heap'[module'].name] = module'
          /\ \A n \in DOMAIN sys_modules :
                n # heap'[module'].name => sys_modules'[n] = sys_modules[n]
    /\ (pc = "exec" /\ pc' = "loop") =>
          /\ sys_modules' = sys_modules
          /\ sys_modules'[heap[module].name] = module
          /\ Len(heap') = Len(heap)
          /\ \A id \in 1..Len(heap) : id # module => heap'[id] = heap[id]
          /\ "X" \in heap'[module].symbols
          /\ heap'[module].file = heap[module].file
          /\ heap[module].name \in DOMAIN entry_modules =>
                /\ entry_modules[heap[module].name] # module
                /\ heap'[entry_modules[heap[module].name]]
                     = heap[entry_modules[heap[module].name]]
    /\ ~(pc \in {"loop", "exec"}) =>
          /\ heap' = heap
          /\ sys_modules' = sys_modules

C8_Theorem == [][C8_Step]_vars

\* extras.AFC was loaded over a registered upstream extras.AFC, which still
\* has its own load_config
C8_Witness ==
    /\ PRIMARY \in DOMAIN loaded
    /\ PRIMARY \in DOMAIN entry_modules
    /\ sys_modules[PRIMARY] = loaded[PRIMARY]
    /\ sys_modules[PRIMARY] # entry_modules[PRIMARY]
    /\ heap[entry_modules[PRIMARY]].load_config.factor = 1
    /\ heap[sys_modules[PRIMARY]].load_config.factor = 2

(***************************************************************************)
(* C9: the new module object is written to the registry before its body    *)
(* runs.  While the body of entry i runs, the registry entry of name i is  *)
(* the new module object, whose namespace is still empty; when the body    *)
(* fails, the registry keeps that unfinished object, the entry name i had  *)
(* before is not put back, and the earlier entries stay overridden.        *)
(***************************************************************************)
C9_Theorem ==
    /\ pc = "exec" =>
          /\ heap[module].name \in DOMAIN sys_modules
          /\ sys_modules[heap[module].name] = module
          /\ NewThisRun(module)
          /\ Partial(module)
          /\ heap[module].name \notin DOMAIN loaded
    /\ (pc = "failed" /\ error.msg # "Missing AMS override") =>
          /\ sys_modules[NameAt(i)] = module
          /\ NewThisRun(module)
          /\ FromBundle(module, NameAt(i))
          /\ Partial(module)
          /\ NameAt(i) \in DOMAIN entry_modules =>
                sys_modules[NameAt(i)] # entry_modules[NameAt(i)]
          /\ \A j \in 1..(i - 1) : OverriddenThisRun(NameAt(j))

\* a body failed at a later entry under whose name an upstream module had
\* been registered
C9_Witness ==
    /\ pc = "failed"
    /\ error.type = "RuntimeError"
    /\ i > 1
    /\ NameAt(i) \in DOMAIN entry_modules
    /\ heap[entry_modules[NameAt(i)]].file[1] = UPSTREAM_ROOT
    /\ Partial(sys_modules[NameAt(i)])

(***************************************************************************)
(* C10: the function load_config forwards to is bound once, when the       *)
(* import succeeds, and never again.  A later run of the loader replaces   *)
(* the registry entry of extras.AFC by a new module object, and            *)
(* load_config still calls the load_config of the module object that was   *)
(* registered when the import succeeded, not the one now in the registry.  *)
(***************************************************************************)
C10_State ==
    /\ Initialized =>
          /\ _ams_load_config = heap[_AMS_MODULES[PRIMARY]].load_config
          /\ _ams_load_config.module = _AMS_MODULES[PRIMARY]
    /\ (Initialized /\ caller = "reinvoke" /\ PRIMARY \in DOMAIN loaded) =>
          /\ sys_modules[PRIMARY] = loaded[PRIMARY]
          /\ sys_modules[PRIMARY] # _ams_load_config.module
          /\ heap[sys_modules[PRIMARY]].load_config # _ams_load_config
    /\ lastCall # NoCall =>
          /\ lastCall.result.by = _ams_load_config.module
          /\ lastCall.run >= 2 => lastCall.result.by # sys_modules[PRIMARY]

C10_Step == Initialized => _ams_load_config' = _ams_load_config

C10_Theorem == [](C10_State) /\ [][C10_Step]_vars

\* load_config was called after a second run of the loader
C10_Witness ==
    /\ lastCall.run = 2
    /\ pc = "ready"
    /\ lastCall.result.by = _AMS_MODULES[PRIMARY]
    /\ lastCall.result.by # sys_modules[PRIMARY]
    /\ FromBundle(sys_modules[PRIMARY], PRIMARY)

====
